---- MODULE Spec2Model ----
(***************************************************************************)
(* Model of generate_data.py: the single-pass conversion of                *)
(* percentiledata.csv into rawData / countriesInfo and the write of        *)
(* rawdata_extended.js.                                                    *)
(*                                                                         *)
(* Python values are represented as follows.                               *)
(*   str        a tuple of one-character strings, "" is << >>              *)
(*   None       the tuple <<"None">> (no one-character string is "None")   *)
(*   int        an integer; where a call returns int-or-None or raises,    *)
(*              the result is <<"int", n>>, None or <<"raise", name>>      *)
(*   float      <<"float", neg, ip, frac>> (sign, integer part, fraction   *)
(*              digits), <<"inf", neg>> or <<"nan">>                       *)
(*   dict       a function; the empty dict is << >>                        *)
(*   list       a sequence                                                 *)
(***************************************************************************)
EXTENDS Integers, Sequences, FiniteSets, TLC

VARIABLES pc, header, rows, country, percentile, yi, raw_data,
          countries_info, output, artifact, stats, exc, val, ret

vars == <<pc, header, rows, country, percentile, yi, raw_data,
          countries_info, output, artifact, stats, exc, val, ret>>

None == <<"None">>

Int_(n) == <<"int", n>>

Raise(e) == <<"raise", e>>

IsRaise(x) == Len(x) = 2 /\ x[1] = "raise"

IsInt(x) == Len(x) = 2 /\ x[1] = "int"

Range(s) == {s[i] : i \in 1..Len(s)}

(***************************************************************************)
(* str methods                                                             *)
(***************************************************************************)
RECURSIVE lstrip(_)
lstrip(s) == IF s # <<>> /\ Head(s) = " " THEN lstrip(Tail(s)) ELSE s

RECURSIVE rstrip(_)
rstrip(s) ==
    IF s # <<>> /\ s[Len(s)] = " " THEN rstrip(SubSeq(s, 1, Len(s) - 1)) ELSE s

\* str.strip(): whitespace removed at both ends
strip(s) == rstrip(lstrip(s))

\* str.startswith(prefix)
startswith(s, prefix) ==
    Len(s) >= Len(prefix) /\ SubSeq(s, 1, Len(prefix)) = prefix

\* str.replace(old, ''): every non-overlapping occurrence of old is removed
RECURSIVE replace(_, _)
replace(s, old) ==
    IF Len(s) < Len(old) THEN s
    ELSE IF SubSeq(s, 1, Len(old)) = old
         THEN replace(SubSeq(s, Len(old) + 1, Len(s)), old)
         ELSE <<Head(s)>> \o replace(Tail(s), old)

Contact == <<"C", "o", "n", "t", "a", "c", "t", " ">>

(***************************************************************************)
(* float(), round(), int()                                                 *)
(***************************************************************************)
Digits == {"0", "1", "2", "3", "4", "5", "6", "7", "8", "9"}

DigitVal(c) ==
    CASE c = "0" -> 0 [] c = "1" -> 1 [] c = "2" -> 2 [] c = "3" -> 3
      [] c = "4" -> 4 [] c = "5" -> 5 [] c = "6" -> 6 [] c = "7" -> 7
      [] c = "8" -> 8 [] c = "9" -> 9

IsDigits(s) == \A i \in 1..Len(s) : s[i] \in Digits

RECURSIVE DigitsVal(_)
DigitsVal(s) ==
    IF s = <<>> THEN 0
    ELSE 10 * DigitsVal(SubSeq(s, 1, Len(s) - 1)) + DigitVal(s[Len(s)])

\* position of the first "." in s, 0 when there is none
DotPos(s) ==
    IF \E i \in 1..Len(s) : s[i] = "."
    THEN CHOOSE i \in 1..Len(s) : s[i] = "." /\ \A j \in 1..(i - 1) : s[j] # "."
    ELSE 0

\* float(str) for literals without exponent or underscore: surrounding
\* whitespace ignored, optional sign, then inf / infinity / nan or a decimal
\* with digits on at least one side of the point; anything else ValueError
float(s) ==
    LET t    == strip(s)
        sgn  == t # <<>> /\ Head(t) \in {"-", "+"}
        neg  == t # <<>> /\ Head(t) = "-"
        body == IF sgn THEN Tail(t) ELSE t
        dot  == DotPos(body)
        ip   == IF dot = 0 THEN body ELSE SubSeq(body, 1, dot - 1)
        frac == IF dot = 0 THEN <<>> ELSE SubSeq(body, dot + 1, Len(body))
    IN  IF body \in {<<"i", "n", "f">>,
                     <<"i", "n", "f", "i", "n", "i", "t", "y">>}
        THEN <<"inf", neg>>
        ELSE IF body = <<"n", "a", "n">> THEN <<"nan">>
        ELSE IF IsDigits(ip) /\ IsDigits(frac) /\ Len(ip) + Len(frac) > 0
        THEN <<"float", neg, DigitsVal(ip), frac>>
        ELSE Raise("ValueError")

\* is the fraction 0.d1d2... above, at, or below one half
FracCmpHalf(frac) ==
    IF frac = <<>> \/ DigitVal(frac[1]) < 5 THEN -1
    ELSE IF DigitVal(frac[1]) > 5 THEN 1
    ELSE IF \A i \in 2..Len(frac) : frac[i] = "0" THEN 0
    ELSE 1

\* int(round(x)): round half to even; round() of an infinity raises
\* OverflowError and of a NaN raises ValueError
int_round(x) ==
    IF IsRaise(x) THEN x
    ELSE IF x[1] = "inf" THEN Raise("OverflowError")
    ELSE IF x[1] = "nan" THEN Raise("ValueError")
    ELSE LET c == FracCmpHalf(x[4])
             m == IF c = 1 \/ (c = 0 /\ x[3] % 2 = 1) THEN x[3] + 1 ELSE x[3]
         IN  Int_(IF x[2] THEN 0 - m ELSE m)

\* parse_int_or_none(val): None for None / blank, the except clause turns
\* ValueError and TypeError into None, any other exception propagates
parse_int_or_none(v) ==
    IF v = None \/ strip(v) = <<>> THEN None
    ELSE LET r == int_round(float(v))
         IN  IF IsRaise(r) /\ r[2] \in {"ValueError", "TypeError"}
             THEN None
             ELSE r

(***************************************************************************)
(* dict helpers and the CSV reader                                         *)
(***************************************************************************)
EmptyDict == <<>>

DictSet(d, k, v) == [x \in DOMAIN d \cup {k} |-> IF x = k THEN v ELSE d[x]]

\* dict.get(key, default)
get(d, key, default) == IF key \in DOMAIN d THEN d[key] ELSE default

\* a column name; f'p_global_{suffix}' is the pair of its two parts
Col(name) == <<name>>

YearCol(prefix, suffix) == <<prefix, suffix>>

\* YEAR_MAP.items(), in insertion order
YEAR_MAP == << <<"90", "1990">>, <<"00", "2000">>, <<"10", "2010">>,
               <<"19", "2019">>, <<"22", "2022">> >>

Suffixes == {YEAR_MAP[i][1] : i \in 1..Len(YEAR_MAP)}

YearKeys == {YEAR_MAP[i][2] : i \in 1..Len(YEAR_MAP)}

SuffixOf(y) == YEAR_MAP[CHOOSE i \in 1..Len(YEAR_MAP) : YEAR_MAP[i][2] = y][1]

Prefixes == <<"p_global_", "p_region_", "p_income_">>

\* the header the script expects: the four named columns, then the three
\* percentile columns of each year
FullHeader ==
    <<Col("country"), Col("region_wb"), Col("incomegroup"), Col("p_country")>>
    \o [i \in 1..(3 * Len(YEAR_MAP)) |->
            YearCol(Prefixes[((i - 1) % 3) + 1], YEAR_MAP[((i - 1) \div 3) + 1][1])]

Without(h, f) == SelectSeq(h, LAMBDA x : x # f)

IndexOf(h, f) == CHOOSE i \in 1..Len(h) : h[i] = f

\* csv.DictReader: the cells of a line are keyed by the header's names in
\* order; a line shorter than the header gets restval (None) for the rest.
\* cells maps every column name of the line to its text, k is the number of
\* cells the line holds.
DictRow(h, cells, k) ==
    [f \in Range(h) |-> IF IndexOf(h, f) <= k THEN cells[f] ELSE None]

\* the row the for-loop is working on
row == rows[Len(rows)]

(***************************************************************************)
(* main(): the body of the row loop                                        *)
(***************************************************************************)
\* lines 46-52: the CountryInfo is recorded only when the country is new
NewInfo(r) ==
    LET region == strip(get(r, Col("region_wb"), <<>>))
        incomegroup == strip(get(r, Col("incomegroup"), <<>>))
    IN  [region |-> IF region # <<>> THEN region ELSE None,
         incomegroup |-> IF incomegroup # <<>> THEN incomegroup ELSE None]

UpdateInfoOverwrite(ci, c, r) == DictSet(ci, c, NewInfo(r))

UpdateInfo(ci, c, r) == IF c \in DOMAIN ci THEN ci ELSE DictSet(ci, c, NewInfo(r))

\* lines 54-55
EnsureCountryEager(rd, c) ==
    IF c \in DOMAIN rd THEN rd ELSE DictSet(rd, c, [y \in {"1990"} |-> <<>>])

EnsureCountry(rd, c) == IF c \in DOMAIN rd THEN rd ELSE DictSet(rd, c, EmptyDict)

\* lines 58-64: the domestic percentile of a stripped p_country cell
ParsePercentile(p_country_raw) ==
    IF startswith(p_country_raw, Contact)
    THEN parse_int_or_none(replace(p_country_raw, Contact))
    ELSE parse_int_or_none(p_country_raw)

\* lines 41-67 for one row r (c0, p0: the locals country and percentile as
\* the previous row left them): the new mappings, the row's locals and where
\* control goes (next is "rows" after a continue, "years" into the year loop,
\* "aborted" when an exception leaves main)
RowHead(r, ci, rd, c0, p0) ==
    LET stay == [ci |-> ci, rd |-> rd, country |-> c0, percentile |-> p0]
        skip == [ci |-> ci, rd |-> rd, country |-> <<>>, percentile |-> p0]
    IN
    IF Col("country") \notin DOMAIN r
    THEN stay @@ [next |-> "aborted", exc |-> "KeyError"]
    ELSE IF r[Col("country")] = None
    THEN stay @@ [next |-> "aborted", exc |-> "AttributeError"]
    ELSE
    LET c == strip(r[Col("country")]) IN
    IF c = <<>>
    THEN skip @@ [next |-> "rows", exc |-> ""]
    ELSE
    LET isnew == c \notin DOMAIN ci
        rg    == get(r, Col("region_wb"), <<>>)
        ig    == get(r, Col("incomegroup"), <<>>)
    IN
    IF isnew /\ (rg = None \/ ig = None)
    THEN [stay EXCEPT !.country = c]
         @@ [next |-> "aborted", exc |-> "AttributeError"]
    ELSE
    LET ci2  == UpdateInfo(ci, c, r)
        rd2  == EnsureCountry(rd, c)
        pcr  == get(r, Col("p_country"), <<>>)
        kept == [ci |-> ci2, rd |-> rd2, country |-> c]
    IN
    IF pcr = None
    THEN kept @@ [percentile |-> p0, next |-> "aborted",
                  exc |-> "AttributeError"]
    ELSE
    LET p == ParsePercentile(strip(pcr)) IN
    IF IsRaise(p)
    THEN kept @@ [percentile |-> p0, next |-> "aborted", exc |-> p[2]]
    ELSE IF p = None
    THEN kept @@ [percentile |-> None, next |-> "rows", exc |-> ""]
    ELSE kept @@ [percentile |-> p, next |-> "years", exc |-> ""]

\* line 75
AllAbsentNever(g, r, i) == FALSE

AllAbsent(g, r, i) == g = None /\ r = None /\ i = None

\* lines 81-84: the Observation; g, r, i are int-or-None results
PointNegated(p, g, r, i) ==
    [k \in {"percentile"} \cup (IF g # None THEN {"global"} ELSE {})
                          \cup (IF r # None THEN {"region"} ELSE {})
                          \cup (IF i # None THEN {"income"} ELSE {})
       |-> CASE k = "percentile" -> 0 - p[2] - 1
             [] k = "global" -> g[2]
             [] k = "region" -> r[2]
             [] k = "income" -> i[2]]

Point(p, g, r, i) ==
    [k \in {"percentile"} \cup (IF g # None THEN {"global"} ELSE {})
                          \cup (IF r # None THEN {"region"} ELSE {})
                          \cup (IF i # None THEN {"income"} ELSE {})
       |-> CASE k = "percentile" -> p[2]
             [] k = "global" -> g[2]
             [] k = "region" -> r[2]
             [] k = "income" -> i[2]]

\* lines 78-85: the Series is created on first use, then appended to
AppendPointDedup(rd, c, year_key, point) ==
    LET old == get(rd[c], year_key, <<>>) IN
    IF \E j \in 1..Len(old) : old[j]["percentile"] = point["percentile"]
    THEN rd
    ELSE DictSet(rd, c, DictSet(rd[c], year_key, Append(old, point)))

AppendPoint(rd, c, year_key, point) ==
    DictSet(rd, c, DictSet(rd[c], year_key,
                           Append(get(rd[c], year_key, <<>>), point)))

\* lines 71-85 for the row r and one entry of YEAR_MAP
YearBody(r, rd, c, p, entry) ==
    LET global_val == parse_int_or_none(get(r, YearCol("p_global_", entry[1]), <<>>))
        region_val == parse_int_or_none(get(r, YearCol("p_region_", entry[1]), <<>>))
        income_val == parse_int_or_none(get(r, YearCol("p_income_", entry[1]), <<>>))
    IN
    IF IsRaise(global_val) THEN [rd |-> rd, exc |-> global_val[2]]
    ELSE IF IsRaise(region_val) THEN [rd |-> rd, exc |-> region_val[2]]
    ELSE IF IsRaise(income_val) THEN [rd |-> rd, exc |-> income_val[2]]
    ELSE IF AllAbsent(global_val, region_val, income_val)
    THEN [rd |-> rd, exc |-> ""]
    ELSE [rd |-> AppendPoint(rd, c, entry[2],
                             Point(p, global_val, region_val, income_val)),
          exc |-> ""]

(***************************************************************************)
(* main(): post-processing, serialisation, output                          *)
(***************************************************************************)
\* list.sort(key=percentile) is stable: an element goes behind every element
\* whose key is not greater
InsertBeforeTies(sorted, x) ==
    LET k == Cardinality({j \in 1..Len(sorted) :
                            sorted[j]["percentile"] < x["percentile"]})
    IN  SubSeq(sorted, 1, k) \o <<x>> \o SubSeq(sorted, k + 1, Len(sorted))

Insert(sorted, x) ==
    LET k == Cardinality({j \in 1..Len(sorted) :
                            sorted[j]["percentile"] <= x["percentile"]})
    IN  SubSeq(sorted, 1, k) \o <<x>> \o SubSeq(sorted, k + 1, Len(sorted))

RECURSIVE sort_by_percentile(_)
sort_by_percentile(s) ==
    IF s = <<>> THEN <<>>
    ELSE Insert(sort_by_percentile(SubSeq(s, 1, Len(s) - 1)), s[Len(s)])

\* lines 88-90
SortAll(rd) ==
    [c \in DOMAIN rd |-> [y \in DOMAIN rd[c] |-> sort_by_percentile(rd[c][y])]]

\* lines 93-98
PruneKeepNone(info) == info

Prune(info) == [k \in {x \in DOMAIN info : info[x] # None} |-> info[k]]

PruneAll(ci) == [c \in DOMAIN ci |-> Prune(ci[c])]

\* json.dumps of an int: its decimal digits
DigitChar(d) ==
    CASE d = 0 -> "0" [] d = 1 -> "1" [] d = 2 -> "2" [] d = 3 -> "3"
      [] d = 4 -> "4" [] d = 5 -> "5" [] d = 6 -> "6" [] d = 7 -> "7"
      [] d = 8 -> "8" [] d = 9 -> "9"

RECURSIVE NatToStr(_)
NatToStr(n) ==
    IF n < 10 THEN <<DigitChar(n)>>
    ELSE NatToStr(n \div 10) \o <<DigitChar(n % 10)>>

JsonInt(n) == IF n < 0 THEN <<"-">> \o NatToStr(0 - n) ELSE NatToStr(n)

\* json.dumps of a str without characters that need escaping
JsonStr(s) == <<"\"">> \o s \o <<"\"">>

\* json.dumps of None
JsonNull == <<"n", "u", "l", "l">>

\* json.dumps(raw_data): an object per country, an object per year, an array
\* of objects whose members are numbers
DumpsRawData(rd) ==
    [c \in {JsonStr(x) : x \in DOMAIN rd} |->
        LET x == CHOOSE x \in DOMAIN rd : JsonStr(x) = c IN
        [y \in DOMAIN rd[x] |->
            [i \in 1..Len(rd[x][y]) |->
                [k \in DOMAIN rd[x][y][i] |-> JsonInt(rd[x][y][i][k])]]]]

\* json.dumps(countries_info): a member is a string, or null for None
DumpsInfo(ci) ==
    [c \in {JsonStr(x) : x \in DOMAIN ci} |->
        LET x == CHOOSE x \in DOMAIN ci : JsonStr(x) = c IN
        [k \in DOMAIN ci[x] |->
            IF ci[x][k] = None THEN JsonNull ELSE JsonStr(ci[x][k])]]

\* line 104: the two declaration lines
Output(rd, ci) ==
    << <<"    const rawData = ", DumpsRawData(rd), ";\n">>,
       <<"    const countriesInfo = ", DumpsInfo(ci), ";\n">> >>

\* line 107: f.write(output) followed by the close of the file
WriteFirstLine(content) == SubSeq(content, 1, 1)

Write(content) == content

\* lines 110-111
RECURSIVE SumLen(_, _)
SumLen(d, keys) ==
    IF keys = {} THEN 0
    ELSE LET k == CHOOSE k \in keys : TRUE
         IN  Len(d[k]) + SumLen(d, keys \ {k})

RECURSIVE TotalPoints(_, _)
TotalPoints(rd, keys) ==
    IF keys = {} THEN 0
    ELSE LET c == CHOOSE c \in keys : TRUE
         IN  SumLen(rd[c], DOMAIN rd[c]) + TotalPoints(rd, keys \ {c})

\* what the artifact holds before the run
OldArtifact == << <<"previous content">> >>

(***************************************************************************)
(* Bounds and input files                                                  *)
(***************************************************************************)
\* rows per file
MaxRows == 2

MaxSortRows == 3

MaxColRows == 2

\* characters per cell handed to parse_int_or_none
MaxCellLen == 3

PrefixIdx(prefix) == CHOOSE i \in 1..Len(Prefixes) : Prefixes[i] = prefix

\* the cells of one full line: ys maps a year suffix to the texts of its
\* global, region and income columns
MkCells(c, rg, ig, p, ys) ==
    [f \in Range(FullHeader) |->
        CASE f = Col("country") -> c
          [] f = Col("region_wb") -> rg
          [] f = Col("incomegroup") -> ig
          [] f = Col("p_country") -> p
          [] OTHER -> ys[f[2]][PrefixIdx(f[1])]]

YNone == [s \in Suffixes |-> << <<>>, <<>>, <<>> >>]

YMixed ==
    [s \in Suffixes |->
        CASE s = "90" -> << <<"5">>, <<>>, <<>> >>
          [] s = "00" -> << <<>>, <<" ">>, <<>> >>
          [] s = "10" -> << <<"x">>, <<" ">>, <<"n", "a", "n">> >>
          [] s = "19" -> << <<"1", "0", ".", "5">>, <<"2", "0">>, <<"3", "0">> >>
          [] s = "22" -> << <<>>, <<"4", "0">>, <<>> >>]

YInf ==
    [s \in Suffixes |->
        CASE s = "90" -> << <<"5">>, <<"6">>, <<>> >>
          [] s = "00" -> << <<>>, <<"i", "n", "f">>, <<"9">> >>
          [] s = "22" -> << <<"7">>, <<>>, <<>> >>
          [] OTHER -> << <<>>, <<>>, <<>> >>]

YLow ==
    [s \in Suffixes |->
        CASE s = "90" -> << <<"5">>, <<>>, <<"1">> >>
          [] s = "22" -> << <<"5">>, <<>>, <<>> >>
          [] OTHER -> << <<>>, <<>>, <<>> >>]

YHigh ==
    [s \in Suffixes |->
        CASE s = "22" -> << <<"6">>, <<"8">>, <<>> >>
          [] OTHER -> << <<>>, <<>>, <<>> >>]

PCountryCells ==
    { <<>>, Contact \o <<"7">>, <<"-", "3">>, Contact \o <<"-", "2">>,
      <<"2", ".", "5">>, <<"i", "n", "f">> }

\* files for the ingestion claims: countries with and without surrounding
\* blanks, blank and filled metadata, every kind of p_country cell
RowsMain ==
    { MkCells(c, m[1], m[2], <<"1">>, YMixed) :
        c \in {<<" ">>, <<"X", " ">>, <<"Y">>},
        m \in { << <<" ">>, <<>> >>, << <<"A", " ">>, <<"H">> >>,
                << <<"B">>, <<>> >> } }
    \cup
    { MkCells(<<"X">>, <<"A">>, <<"H">>, p, ys) :
        p \in PCountryCells, ys \in {YNone, YMixed, YInf} }

\* files for the ordering claim: one country, percentiles out of order and
\* tied (1 and 1.4 both round to 1), different payloads
RowsSort ==
    { MkCells(<<"X">>, <<"A">>, <<"H">>, p, ys) :
        p \in {<<"1">>, <<"1", ".", "4">>, <<"2">>},
        ys \in {YLow, YHigh, YMixed} }

\* files for the missing-column claim
RowsCols ==
    { MkCells(c, <<"A">>, <<"H">>, <<"1">>, ys) :
        c \in {<<"X">>, <<"Y">>}, ys \in {YMixed, YLow} }

HeaderSet ==
    { FullHeader, Without(FullHeader, Col("country")),
      Without(FullHeader, Col("region_wb")),
      Without(FullHeader, Col("p_country")),
      Without(FullHeader, YearCol("p_region_", "22")) }

\* the lengths of the lines of the file: complete, or cut short
FullLines == {Len(header)}

CutLines == {1, 2, 3, 4, Len(header) - 1, Len(header)}

ParseAlphabet == {" ", "-", ".", "1", "2", "5", "a", "f", "i", "n", "x"}

ParseInputs ==
    {None} \cup UNION {[1..n -> ParseAlphabet] : n \in 0..MaxCellLen}

(***************************************************************************)
(* The run                                                                 *)
(***************************************************************************)
Fresh ==
    /\ rows = <<>>
    /\ country = None
    /\ percentile = None
    /\ yi = 0
    /\ raw_data = EmptyDict
    /\ countries_info = EmptyDict
    /\ output = None
    /\ artifact = OldArtifact
    /\ stats = None
    /\ exc = ""

Init ==
    /\ pc = "start"
    /\ header = FullHeader
    /\ Fresh
    /\ val = None
    /\ ret = None

InitCols ==
    /\ pc = "start"
    /\ header \in HeaderSet
    /\ Fresh
    /\ val = None
    /\ ret = None

InitParse ==
    /\ pc = "call"
    /\ header = FullHeader
    /\ Fresh
    /\ val \in ParseInputs
    /\ ret = None

\* a call of parse_int_or_none(val)
CallParse ==
    /\ pc = "call"
    /\ ret' = parse_int_or_none(val)
    /\ pc' = "returned"
    /\ UNCHANGED <<header, rows, country, percentile, yi, raw_data,
                   countries_info, output, artifact, stats, exc, val>>

\* line 38: the CSV opens
OpenInput ==
    /\ pc = "start"
    /\ pc' = "rows"
    /\ UNCHANGED <<header, rows, country, percentile, yi, raw_data,
                   countries_info, output, artifact, stats, exc, val, ret>>

\* line 38: the CSV does not open
OpenInputFail ==
    /\ pc = "start"
    /\ pc' = "aborted"
    /\ exc' = "OSError"
    /\ UNCHANGED <<header, rows, country, percentile, yi, raw_data,
                   countries_info, output, artifact, stats, val, ret>>

\* lines 40-67: the reader yields the next line and the loop body runs up to
\* the year loop
ReadRow(RowSet, Lens, Max) ==
    /\ pc = "rows"
    /\ Len(rows) < Max
    /\ \E cells \in RowSet, k \in Lens :
         LET r == DictRow(header, cells, k)
             h == RowHead(r, countries_info, raw_data, country, percentile)
         IN  /\ rows' = Append(rows, r)
             /\ countries_info' = h.ci
             /\ raw_data' = h.rd
             /\ country' = h.country
             /\ percentile' = h.percentile
             /\ exc' = h.exc
             /\ pc' = h.next
             /\ yi' = IF h.next = "years" THEN 1 ELSE 0
    /\ UNCHANGED <<header, output, artifact, stats, val, ret>>

\* lines 70-85: one iteration of the year loop
YearStep ==
    /\ pc = "years"
    /\ LET b == YearBody(row, raw_data, country, percentile, YEAR_MAP[yi])
       IN  /\ raw_data' = b.rd
           /\ exc' = b.exc
           /\ IF b.exc # "" THEN pc' = "aborted" /\ yi' = yi
              ELSE IF yi = Len(YEAR_MAP) THEN pc' = "rows" /\ yi' = 0
              ELSE pc' = "years" /\ yi' = yi + 1
    /\ UNCHANGED <<header, rows, country, percentile, countries_info, output,
                   artifact, stats, val, ret>>

\* line 40: the reader is exhausted, the with block closes the CSV
EndOfFile ==
    /\ pc = "rows"
    /\ pc' = "sort"
    /\ UNCHANGED <<header, rows, country, percentile, yi, raw_data,
                   countries_info, output, artifact, stats, exc, val, ret>>

\* lines 88-90
SortSeries ==
    /\ pc = "sort"
    /\ raw_data' = SortAll(raw_data)
    /\ pc' = "prune"
    /\ UNCHANGED <<header, rows, country, percentile, yi, countries_info,
                   output, artifact, stats, exc, val, ret>>

\* lines 93-98
PruneInfo ==
    /\ pc = "prune"
    /\ countries_info' = PruneAll(countries_info)
    /\ pc' = "dumps"
    /\ UNCHANGED <<header, rows, country, percentile, yi, raw_data, output,
                   artifact, stats, exc, val, ret>>

\* lines 101-104
Serialize ==
    /\ pc = "dumps"
    /\ output' = Output(raw_data, countries_info)
    /\ pc' = "open_out"
    /\ UNCHANGED <<header, rows, country, percentile, yi, raw_data,
                   countries_info, artifact, stats, exc, val, ret>>

\* line 106: open(OUTPUT_PATH, 'w') truncates the artifact
OpenOutput ==
    /\ pc = "open_out"
    /\ artifact' = <<>>
    /\ pc' = "write"
    /\ UNCHANGED <<header, rows, country, percentile, yi, raw_data,
                   countries_info, output, stats, exc, val, ret>>

\* line 106: the artifact cannot be opened for writing
OpenOutputFail ==
    /\ pc = "open_out"
    /\ pc' = "aborted"
    /\ exc' = "OSError"
    /\ UNCHANGED <<header, rows, country, percentile, yi, raw_data,
                   countries_info, output, artifact, stats, val, ret>>

\* line 107
WriteOutput ==
    /\ pc = "write"
    /\ artifact' = Write(output)
    /\ pc' = "stats"
    /\ UNCHANGED <<header, rows, country, percentile, yi, raw_data,
                   countries_info, output, stats, exc, val, ret>>

\* line 107: the write fails (device full, I/O error) after the truncation,
\* with some proper prefix of the output on the device
WriteOutputFail ==
    /\ pc = "write"
    /\ \E n \in 0..(Len(output) - 1) : artifact' = SubSeq(output, 1, n)
    /\ pc' = "aborted"
    /\ exc' = "OSError"
    /\ UNCHANGED <<header, rows, country, percentile, yi, raw_data,
                   countries_info, output, stats, val, ret>>

\* lines 110-116
Stats ==
    /\ pc = "stats"
    /\ stats' = <<Cardinality(DOMAIN raw_data),
                  TotalPoints(raw_data, DOMAIN raw_data)>>
    /\ pc' = "done"
    /\ UNCHANGED <<header, rows, country, percentile, yi, raw_data,
                   countries_info, output, artifact, exc, val, ret>>

Next ==
    \/ OpenInput \/ OpenInputFail
    \/ ReadRow(RowsMain, FullLines, MaxRows) \/ YearStep
    \/ EndOfFile \/ SortSeries \/ PruneInfo \/ Serialize
    \/ OpenOutput \/ OpenOutputFail \/ WriteOutput \/ WriteOutputFail \/ Stats

NextSort ==
    \/ OpenInput \/ OpenInputFail
    \/ ReadRow(RowsSort, FullLines, MaxSortRows) \/ YearStep
    \/ EndOfFile \/ SortSeries \/ PruneInfo \/ Serialize
    \/ OpenOutput \/ OpenOutputFail \/ WriteOutput \/ WriteOutputFail \/ Stats

NextCols ==
    \/ OpenInput \/ OpenInputFail
    \/ ReadRow(RowsCols, CutLines, MaxColRows) \/ YearStep
    \/ EndOfFile \/ SortSeries \/ PruneInfo \/ Serialize
    \/ OpenOutput \/ OpenOutputFail \/ WriteOutput \/ WriteOutputFail \/ Stats

NextParse == CallParse

Spec == Init /\ [][Next]_vars

SpecSort == Init /\ [][NextSort]_vars

SpecCols == InitCols /\ [][NextCols]_vars

SpecParse == InitParse /\ [][NextParse]_vars

(***************************************************************************)
(* Properties.  The definitions below describe the rows the reader has     *)
(* yielded so far (rows) independently of the mappings main() builds.      *)
(***************************************************************************)
\* the text of a cell, a missing column or a cut-off cell read as ""
Cell(r, f) == IF f \in DOMAIN r /\ r[f] # None THEN r[f] ELSE <<>>

TrimmedCountry(r) == strip(Cell(r, Col("country")))

Seen == {TrimmedCountry(rows[k]) : k \in 1..Len(rows)} \ {<<>>}

RowsOf(c) == {k \in 1..Len(rows) : TrimmedCountry(rows[k]) = c}

FirstRow(c) == rows[CHOOSE k \in RowsOf(c) : \A j \in RowsOf(c) : k <= j]

\* the domestic percentile of a row: <<"int", n>> or None
Domestic(r) == ParsePercentile(strip(Cell(r, Col("p_country"))))

\* the p_country number of the row, prefix removed, carries a minus sign
NegativeCell(r) ==
    LET t == strip(Cell(r, Col("p_country")))
        u == strip(IF startswith(t, Contact) THEN replace(t, Contact) ELSE t)
    IN  u # <<>> /\ Head(u) = "-"

FieldPrefix(k) ==
    CASE k = "global" -> "p_global_" [] k = "region" -> "p_region_"
      [] k = "income" -> "p_income_"

YearValue(r, k, y) == parse_int_or_none(Cell(r, YearCol(FieldPrefix(k), SuffixOf(y))))

PresentFields(r, y) == {k \in {"global", "region", "income"} : IsInt(YearValue(r, k, y))}

\* row k contributes an Observation to Series(c, y)
Qualifies(k, c, y) ==
    /\ TrimmedCountry(rows[k]) = c
    /\ IsInt(Domestic(rows[k]))
    /\ PresentFields(rows[k], y) # {}

ExpectedPoint(r, y) ==
    [k \in {"percentile"} \cup PresentFields(r, y) |->
        IF k = "percentile" THEN Domestic(r)[2] ELSE YearValue(r, k, y)[2]]

\* the Observations of (c, y) in the order of the rows that produce them
ExpectedSeries(c, y) ==
    LET ks == {k \in 1..Len(rows) : Qualifies(k, c, y)}
        nth(i) == CHOOSE k \in ks : Cardinality({j \in ks : j <= k}) = i
    IN  [i \in 1..Cardinality(ks) |-> ExpectedPoint(rows[nth(i)], y)]

Series(c, y) ==
    IF c \in DOMAIN raw_data /\ y \in DOMAIN raw_data[c] THEN raw_data[c][y]
    ELSE <<>>

Count(s, x) == Cardinality({i \in 1..Len(s) : s[i] = x})

WithPercentile(s, p) == SelectSeq(s, LAMBDA x : x["percentile"] = p)

AllPoints ==
    UNION {UNION {Range(raw_data[c][y]) : y \in DOMAIN raw_data[c]} :
             c \in DOMAIN raw_data}

\* main() is between rows or past the row loop, and has not aborted
BetweenRows == pc \in {"rows", "sort", "prune", "dumps", "open_out", "write",
                       "stats", "done"}

Sorted == pc \in {"prune", "dumps", "open_out", "write", "stats", "done"}

\* C1: after the post-processing every Series is non-decreasing by percentile
\* and Observations of equal percentile stand in the order of the rows that
\* produced them.
C1_StableSort ==
    Sorted =>
      \A c \in DOMAIN raw_data : \A y \in DOMAIN raw_data[c] :
        LET s == raw_data[c][y] IN
        /\ \A i \in 1..(Len(s) - 1) : s[i]["percentile"] <= s[i + 1]["percentile"]
        /\ Len(s) = Len(ExpectedSeries(c, y))
        /\ \A i \in 1..Len(s) :
             WithPercentile(s, s[i]["percentile"])
               = WithPercentile(ExpectedSeries(c, y), s[i]["percentile"])

\* a sorted Series whose rows came out of order and which holds two different
\* Observations of the same percentile
C1_Witness ==
    /\ Sorted
    /\ \E c \in DOMAIN raw_data : \E y \in DOMAIN raw_data[c] :
         LET s == raw_data[c][y] IN
         /\ s # ExpectedSeries(c, y)
         /\ \E i \in 1..(Len(s) - 1) :
              s[i]["percentile"] = s[i + 1]["percentile"] /\ s[i] # s[i + 1]

\* C2: parse_int_or_none returns an integer or None for every cell and never
\* raises to its caller.
C2_ParseNeverRaises == pc = "returned" => (ret = None \/ IsInt(ret))

InfoIs(info, key, v) ==
    IF key \in DOMAIN info /\ info[key] # None
    THEN v # <<>> /\ info[key] = v
    ELSE v = <<>>

\* C3: the CountryInfo of a country holds the trimmed region_wb / incomegroup
\* of the first row of that country, whatever later rows hold.
C3_FirstSeenWins ==
    \A c \in DOMAIN countries_info :
      /\ c \in Seen
      /\ InfoIs(countries_info[c], "region",
                strip(Cell(FirstRow(c), Col("region_wb"))))
      /\ InfoIs(countries_info[c], "incomegroup",
                strip(Cell(FirstRow(c), Col("incomegroup"))))

\* a country whose first row has a blank region and a later row a filled one
C3_Witness ==
    \E c \in DOMAIN countries_info :
      /\ strip(Cell(FirstRow(c), Col("region_wb"))) = <<>>
      /\ \E k \in RowsOf(c) : strip(Cell(rows[k], Col("region_wb"))) # <<>>
      /\ InfoIs(countries_info[c], "region", <<>>)

\* C4: in every state of the run every stored Observation has a percentile
\* and at least one of global, region, income.
C4_NeverBare ==
    \A pt \in AllPoints :
      /\ "percentile" \in DOMAIN pt
      /\ DOMAIN pt \cap {"global", "region", "income"} # {}

\* a row with a percentile, one year with all three cells absent and another
\* year that produced an Observation, has been processed
C4_Witness ==
    /\ pc = "rows"
    /\ rows # <<>>
    /\ IsInt(Domestic(row))
    /\ \E y \in YearKeys : PresentFields(row, y) = {}
                           /\ Series(TrimmedCountry(row), y) = <<>>
    /\ \E y \in YearKeys : Series(TrimmedCountry(row), y) # <<>>

\* C5 as claimed: the percentile of every Observation is non-negative.
C5_NonNegative == \A pt \in AllPoints : pt["percentile"] >= 0

\* C5 amended: the percentile of every Observation is the rounded number of
\* the p_country cell of a row of its country, and it is non-negative unless
\* that number carries a minus sign.
C5_RoundedDomestic ==
    \A c \in DOMAIN raw_data : \A y \in DOMAIN raw_data[c] :
      \A i \in 1..Len(raw_data[c][y]) :
        LET p == raw_data[c][y][i]["percentile"] IN
        /\ p \in Int
        /\ \E k \in RowsOf(c) :
             /\ Domestic(rows[k]) = Int_(p)
             /\ (p >= 0 \/ NegativeCell(rows[k]))

\* an Observation from a 'Contact '-prefixed negative cell
C5_Witness ==
    \E pt \in AllPoints :
      /\ pt["percentile"] < 0
      /\ \E k \in 1..Len(rows) :
           /\ startswith(Cell(rows[k], Col("p_country")), Contact)
           /\ Domestic(rows[k]) = Int_(pt["percentile"])

\* C6 as claimed: the run completes with the full output in the artifact, or
\* aborts with the artifact untouched.
C6_AllOrNothing ==
    /\ (pc = "done" => artifact = output)
    /\ (pc = "aborted" => artifact = OldArtifact)

\* C6 amended: a completed run leaves the full two-line output in the
\* artifact, and up to the opening of the output (opening the input, the row
\* pass, the post-processing, an abort in any of them) the artifact is
\* untouched.
C6_WrittenOrUntouchedBeforeOpen ==
    /\ (pc = "done" => (artifact = output /\ Len(artifact) = 2))
    /\ (pc \in {"start", "rows", "years", "sort", "prune", "dumps", "open_out"}
         => artifact = OldArtifact)
    /\ (pc = "aborted" /\ output = None) => artifact = OldArtifact

\* a completed run over a non-empty file
C6_Witness ==
    /\ pc = "done"
    /\ raw_data # EmptyDict
    /\ artifact = output
    /\ artifact # OldArtifact

\* C7: a missing column (not in the header, or cut off a short line) never
\* aborts the run: its cells are read as empty.
C7_MissingColumnNeverAborts == exc \notin {"KeyError", "AttributeError"}

\* C8: between rows, Series(c, y) holds exactly one Observation per row of c
\* with a domestic percentile and at least one of the three cells of y, made
\* of that percentile and exactly the present fields; nothing is deduplicated.
C8_OnePerQualifyingRow ==
    BetweenRows =>
      \A c \in Seen : \A y \in YearKeys :
        LET s == Series(c, y)
            e == ExpectedSeries(c, y)
        IN  /\ Len(s) = Cardinality({k \in 1..Len(rows) : Qualifies(k, c, y)})
            /\ \A i \in 1..Len(e) : Count(s, e[i]) = Count(e, e[i])
            /\ \A i \in 1..Len(s) : Count(s, s[i]) = Count(e, s[i])

\* two rows of one country with the same percentile both stand in a Series
C8_Witness ==
    /\ BetweenRows
    /\ \E c \in Seen : \E y \in YearKeys :
         \E i, j \in 1..Len(Series(c, y)) :
           i < j /\ Series(c, y)[i]["percentile"] = Series(c, y)[j]["percentile"]

\* the serialized countriesInfo
InfoJson == output[2][2]

JsonMember(rec, key, v) ==
    /\ (key \in DOMAIN rec) <=> (v # <<>>)
    /\ (key \in DOMAIN rec) => /\ rec[key] = JsonStr(v)
                             /\ rec[key] # JsonNull
                             /\ rec[key] # JsonStr(<<>>)

\* C9: in the serialized countriesInfo every country seen has a record whose
\* region / incomegroup key is present exactly when the first row's trimmed
\* value is non-empty, never with an empty string or null.
C9_NoEmptyMembers ==
    output # None =>
      /\ DOMAIN InfoJson = {JsonStr(c) : c \in Seen}
      /\ \A c \in Seen :
           LET rec == InfoJson[JsonStr(c)] IN
           /\ DOMAIN rec \subseteq {"region", "incomegroup"}
           /\ JsonMember(rec, "region",
                         strip(Cell(FirstRow(c), Col("region_wb"))))
           /\ JsonMember(rec, "incomegroup",
                         strip(Cell(FirstRow(c), Col("incomegroup"))))

\* a serialized country with an empty record next to one with both members
C9_Witness ==
    /\ output # None
    /\ \E c \in Seen : DOMAIN InfoJson[JsonStr(c)] = {}
    /\ \E c \in Seen : DOMAIN InfoJson[JsonStr(c)] = {"region", "incomegroup"}

\* C10: after any prefix of the rows rawData and countriesInfo have the same
\* keys, the trimmed non-empty countries seen; a country without Observations
\* is a key of both (and is counted in the reported number of countries), and
\* every year-key present maps to a non-empty Series.
C10_SameKeys ==
    pc # "aborted" =>
      /\ DOMAIN raw_data = Seen
      /\ DOMAIN countries_info = Seen
      /\ \A c \in DOMAIN raw_data :
           /\ DOMAIN raw_data[c] \subseteq YearKeys
           /\ \A y \in DOMAIN raw_data[c] : raw_data[c][y] # <<>>
      /\ (pc = "done" => stats[1] = Cardinality(Seen))

\* a blank-country row and a country without any Observation have been read
C10_Witness ==
    /\ pc = "rows"
    /\ \E k \in 1..Len(rows) : TrimmedCountry(rows[k]) = <<>>
    /\ \E c \in Seen : c \in DOMAIN countries_info /\ raw_data[c] = EmptyDict

====
